---- MODULE Spec2Model ----
(***************************************************************************)
(* Model of scripts/generate_index.py: the wheel filename parser, the two  *)
(* HTML page generators, generate_indexes over a wheels directory and an   *)
(* output directory, and the command-line entry point main.                *)
(*                                                                         *)
(* A Python str is modelled as a sequence of one-character strings, so     *)
(* that the regular expression, the normalisation, the escaping and the    *)
(* sorting are computed character by character.                            *)
(***************************************************************************)
EXTENDS Integers, Sequences, FiniteSets, TLC

VARIABLES
    wheels_dir_exists,  \* wheels_dir.exists()
    wheels_dir,         \* directory entries: name -> "file" | "dir"
    output_dir_exists,  \* output_dir is a directory
    package_dirs,       \* sub-directories of output_dir
    package_pages,      \* package dir -> its index.html, where it has one
    root_page,          \* output_dir/index.html: <<>> or <<page>>
    summary,            \* value returned by the last generate_indexes call
    raised,             \* exception that left the last generate_indexes call
    stderr,             \* lines the last run printed on sys.stderr
    stdout,             \* lines the last run printed on sys.stdout
    exit_code,          \* exit status of the last run of the script
    called,             \* pure-function harness: the function applied
    call_args,          \* pure-function harness: its arguments
    call_result         \* pure-function harness: its result

vars == <<wheels_dir_exists, wheels_dir, output_dir_exists, package_dirs,
          package_pages, root_page, summary, raised, stderr, stdout, exit_code,
          called, call_args, call_result>>

source_vars == <<wheels_dir_exists, wheels_dir>>

output_vars == <<output_dir_exists, package_dirs, package_pages, root_page>>

run_vars == <<summary, raised, stderr, stdout, exit_code>>

(***************************************************************************)
(* Bounds of the model.                                                    *)
(***************************************************************************)
MaxEntries == 3     \* directory entries present in wheels_dir at a time
MaxSegments == 7    \* dash-separated segments of a parser input
MaxNameLen == 5     \* length of a normalisation input
MaxWheels == 3      \* filenames handed to generate_package_index
MaxPackages == 3    \* names handed to generate_root_index

(***************************************************************************)
(* Characters and strings.                                                 *)
(***************************************************************************)
NL == "NL"          \* the newline character

\* ord(c) for the characters that occur in the model
CodePoint ==
    [c \in {NL, "&", "#", "'", "\"", "-", ".", "/", "0", "1", "2", "7", ":",
            ";", "<", ">", "A", "B", "_", "a", "b", "c", "g", "h", "l", "m",
            "n", "o", "p", "q", "t", "u", "w", "x", "y", " "} |->
        CASE c = NL -> 10 [] c = " " -> 32 [] c = "\"" -> 34 [] c = "#" -> 35
          [] c = "&" -> 38 [] c = "'" -> 39
          [] c = "-" -> 45 [] c = "." -> 46 [] c = "/" -> 47
          [] c = "0" -> 48 [] c = "1" -> 49 [] c = "2" -> 50 [] c = "7" -> 55
          [] c = ":" -> 58 [] c = ";" -> 59 [] c = "<" -> 60 [] c = ">" -> 62
          [] c = "A" -> 65 [] c = "B" -> 66 [] c = "_" -> 95
          [] c = "a" -> 97 [] c = "b" -> 98 [] c = "c" -> 99 [] c = "g" -> 103
          [] c = "h" -> 104 [] c = "l" -> 108 [] c = "m" -> 109 [] c = "n" -> 110
          [] c = "o" -> 111 [] c = "p" -> 112 [] c = "q" -> 113 [] c = "t" -> 116
          [] c = "u" -> 117 [] c = "w" -> 119 [] c = "x" -> 120 [] c = "y" -> 121]

\* str.__lt__: lexicographic comparison by code point
RECURSIVE StrLess(_, _)
StrLess(s, t) ==
    IF t = <<>> THEN FALSE
    ELSE IF s = <<>> THEN TRUE
    ELSE IF s[1] = t[1] THEN StrLess(Tail(s), Tail(t))
    ELSE CodePoint[s[1]] < CodePoint[t[1]]

\* insertion of x into an ascending sequence
RECURSIVE Insert(_, _)
Insert(x, s) ==
    IF s = <<>> THEN <<x>>
    ELSE IF StrLess(x, s[1]) THEN <<x>> \o s
    ELSE <<s[1]>> \o Insert(x, Tail(s))

\* sorted(seq) on a sequence of str
RECURSIVE sorted(_)
sorted(s) == IF s = <<>> THEN <<>> ELSE Insert(s[1], sorted(Tail(s)))

\* sorted(set) on a set of str
RECURSIVE sorted_set(_)
sorted_set(S) ==
    IF S = {} THEN <<>>
    ELSE LET x == CHOOSE y \in S : \A z \in S \ {y} : StrLess(y, z)
         IN <<x>> \o sorted_set(S \ {x})

\* s.endswith(t)
EndsWith(s, t) ==
    /\ Len(s) >= Len(t)
    /\ SubSeq(s, Len(s) - Len(t) + 1, Len(s)) = t

\* "-".join(segs)
RECURSIVE Join(_)
Join(segs) ==
    IF segs = <<>> THEN <<>>
    ELSE IF Len(segs) = 1 THEN segs[1]
    ELSE segs[1] \o <<"-">> \o Join(Tail(segs))

WHL == <<".", "w", "h", "l">>

(***************************************************************************)
(* normalize_package_name                                                  *)
(***************************************************************************)
Separators == {"-", "_", "."}

\* str.lower() on one character
LowerChar(c) == CASE c = "A" -> "a" [] c = "B" -> "b" [] OTHER -> c

\* str.lower()
lower(s) == [i \in 1..Len(s) |-> LowerChar(s[i])]

\* s without its leading run of separators
RECURSIVE SkipSeparators(_)
SkipSeparators(s) ==
    IF s # <<>> /\ s[1] \in Separators THEN SkipSeparators(Tail(s)) ELSE s

\* re.sub(r"[-_.]+", "-", s)
RECURSIVE CollapseRuns(_)
CollapseRuns(s) ==
    IF s = <<>> THEN <<>>
    ELSE IF s[1] \in Separators THEN <<"-">> \o CollapseRuns(SkipSeparators(s))
    ELSE <<s[1]>> \o CollapseRuns(Tail(s))

\* s.replace("--", "-"): one left-to-right pass over non-overlapping pairs
RECURSIVE ReplacePairs(_)
ReplacePairs(s) ==
    IF Len(s) < 2 THEN s
    ELSE IF s[1] = "-" /\ s[2] = "-" THEN <<"-">> \o ReplacePairs(SubSeq(s, 3, Len(s)))
    ELSE <<s[1]>> \o ReplacePairs(Tail(s))

\* faulty variant: separators replaced one by one, then doubled dashes replaced once
normalize_by_replace(name) ==
    lower(ReplacePairs([i \in 1..Len(name) |->
                            IF name[i] \in Separators THEN "-" ELSE name[i]]))

normalize_package_name(name) == lower(CollapseRuns(name))

(***************************************************************************)
(* parse_wheel_filename                                                    *)
(*                                                                         *)
(* The pattern is, in order: "^", the lazy group name ".+?", "-", the lazy  *)
(* group version ".+?", an optional greedy group made of "-" and the group *)
(* build (one digit, then any number of characters of [0-9A-Za-z.]), "-",  *)
(* the lazy group python ".+?", "-", the lazy group abi ".+?", "-", the    *)
(* lazy group platform ".+?", the literal ".whl" and "$".                  *)
(*                                                                         *)
(* A match is fixed by the positions of the literal dashes d1 (after name),*)
(* d2 (after version), d3 (after build, when the optional group takes      *)
(* part), d4 (after python), d5 (after abi) and by the position e of the   *)
(* last character of platform.  The backtracking matcher returns the first *)
(* match in its search order: shortest name, then shortest version, then   *)
(* the optional group present before absent, then shortest python, then    *)
(* shortest abi.                                                           *)
(***************************************************************************)
\* None where a str is expected (no str of the model has this element)
None == <<"None">>

NoException == "NoException"

Digits == {"0", "1", "2", "7"}

Letters == {"A", "B", "a", "b", "c", "g", "h", "l", "m", "n", "o", "p", "q",
            "t", "u", "w", "x", "y"}

Min(S) == CHOOSE x \in S : \A y \in S : x <= y

\* positions of the "-" characters of s
Dashes(s) == {i \in 1..Len(s) : s[i] = "-"}

\* the build group (a digit, then characters of [0-9A-Za-z.]) matches s[i..j]
IsBuild(s, i, j) ==
    /\ i <= j
    /\ s[i] \in Digits
    /\ \A k \in (i + 1)..j : s[k] \in Digits \cup Letters \cup {"."}

\* positions e such that "\.whl$" matches right after s[e]; "$" matches at
\* the end of the string and before a newline that ends the string
PatternEnds(s) ==
    {e \in {Len(s) - 5, Len(s) - 4} :
        /\ e >= 0
        /\ SubSeq(s, e + 1, e + 4) = WHL
        /\ \/ e + 4 = Len(s)
           \/ e + 4 = Len(s) - 1 /\ s[Len(s)] = NL}

\* "." matches every character but the newline
NoNewline(s, e) == \A k \in 1..e : s[k] # NL

\* the match object of re.match(pattern, s); matched is FALSE for None
Match(s) ==
    LET D == Dashes(s)
        E == PatternEnds(s)
    IN  IF E = {} THEN [matched |-> FALSE]
        ELSE
        LET e == Min(E)
            \* "-", platform and "\.whl$" match from the dash d5 on
            PlatformOK(d5) == d5 + 1 <= e
            \* "-", abi and the rest match from the dash d4 on
            AbiEnds(d4) == {d5 \in D : d5 >= d4 + 2 /\ PlatformOK(d5)}
            AbiOK(d4) == \E d5 \in D : d5 >= d4 + 2 /\ PlatformOK(d5)
            \* python, starting at s[p], and the rest match
            PythonEnds(p) == {d4 \in D : d4 >= p + 1 /\ AbiOK(d4)}
            PythonOK(p) == \E d4 \in D : d4 >= p + 1 /\ AbiOK(d4)
            \* the optional group takes part after the dash d2, its "-" at d2
            \* and the dash that follows build at d3
            BuildEnds(d2) ==
                {d3 \in D : d3 >= d2 + 2 /\ IsBuild(s, d2 + 1, d3 - 1)
                            /\ PythonOK(d3 + 1)}
            BuildOK(d2) ==
                \E d3 \in D : d3 >= d2 + 2 /\ IsBuild(s, d2 + 1, d3 - 1)
                              /\ PythonOK(d3 + 1)
            \* version ends before the dash d2: the optional group is tried
            \* first, then skipped
            VersionOK(d2) == BuildOK(d2) \/ PythonOK(d2 + 1)
            VersionEnds(d1) == {d2 \in D : d2 >= d1 + 2 /\ VersionOK(d2)}
            NameEnds == {d1 \in D : d1 >= 2 /\ \E d2 \in D : d2 >= d1 + 2 /\ VersionOK(d2)}
        IN  IF ~NoNewline(s, e) \/ NameEnds = {} THEN [matched |-> FALSE]
            ELSE
            LET d1 == Min(NameEnds)
                d2 == Min(VersionEnds(d1))
                hasBuild == BuildOK(d2)
                d3 == IF hasBuild THEN Min(BuildEnds(d2)) ELSE d2
                d4 == Min(PythonEnds(d3 + 1))
                d5 == Min(AbiEnds(d4))
            IN  [matched |-> TRUE,
                 name |-> SubSeq(s, 1, d1 - 1),
                 version |-> SubSeq(s, d1 + 1, d2 - 1),
                 build |-> IF hasBuild THEN SubSeq(s, d2 + 1, d3 - 1) ELSE None,
                 python |-> SubSeq(s, d3 + 1, d4 - 1),
                 abi |-> SubSeq(s, d4 + 1, d5 - 1),
                 platform |-> SubSeq(s, d5 + 1, e)]

\* the dict the function returns, or the ValueError it raises
parse_wheel_filename(filename) ==
    LET match == Match(filename)
    IN  IF ~match.matched THEN [raises |-> "ValueError", filename |-> filename]
        ELSE [raises |-> NoException,
              name |-> normalize_package_name(match.name),
              version |-> match.version,
              build |-> match.build,
              python |-> match.python,
              abi |-> match.abi,
              platform |-> match.platform]

(***************************************************************************)
(* html.escape and the two page generators.  A page is the record of what  *)
(* the generator interpolates into the fixed document: the title (also the *)
(* heading) and, for every anchor line, the text put between the quotes of *)
(* href and the text put between <a ...> and </a>.                         *)
(***************************************************************************)
\* s.replace(c, t) for a one-character c
RECURSIVE Replace(_, _, _)
Replace(s, c, t) ==
    IF s = <<>> THEN <<>>
    ELSE (IF s[1] = c THEN t ELSE <<s[1]>>) \o Replace(Tail(s), c, t)

AMP == <<"&", "a", "m", "p", ";">>
LT == <<"&", "l", "t", ";">>
GT == <<"&", "g", "t", ";">>
QUOT == <<"&", "q", "u", "o", "t", ";">>
APOS == <<"&", "#", "x", "2", "7", ";">>

\* html.escape(s, quote=True)
escape(s) ==
    Replace(Replace(Replace(Replace(Replace(s, "&", AMP), "<", LT), ">", GT),
                    "\"", QUOT), "'", APOS)

\* s.rstrip("/")
RECURSIVE rstrip_slash(_)
rstrip_slash(s) ==
    IF s # <<>> /\ s[Len(s)] = "/" THEN rstrip_slash(SubSeq(s, 1, Len(s) - 1))
    ELSE s

LINKS_FOR == <<"L", "i", "n", "k", "s", " ", "f", "o", "r", " ">>
SIMPLE_INDEX == <<"S", "i", "m", "p", "l", "e", " ", "I", "n", "d", "e", "x">>

\* faulty variant: base_url is used as given
package_index_without_rstrip(package_name, wheels, base_url) ==
    LET ordered == sorted(wheels)
    IN  [title |-> LINKS_FOR \o package_name,
         links |-> [i \in 1..Len(ordered) |->
                       [href |-> escape(base_url \o <<"/">> \o ordered[i]),
                        text |-> escape(ordered[i])]]]

generate_package_index(package_name, wheels, base_url) ==
    LET normalized_base == rstrip_slash(base_url)
        ordered == sorted(wheels)
    IN  [title |-> LINKS_FOR \o package_name,
         links |-> [i \in 1..Len(ordered) |->
                       [href |-> escape(normalized_base \o <<"/">> \o ordered[i]),
                        text |-> escape(ordered[i])]]]

\* s reversed
RECURSIVE Reverse(_)
Reverse(s) == IF s = <<>> THEN <<>> ELSE Reverse(Tail(s)) \o <<s[1]>>

\* faulty variant: the packages are listed in descending order
root_index_descending(packages) ==
    LET normalized_packages ==
            Reverse(sorted_set({normalize_package_name(package) : package \in packages}))
    IN  [title |-> SIMPLE_INDEX,
         links |-> [i \in 1..Len(normalized_packages) |->
                       [href |-> normalized_packages[i] \o <<"/">>,
                        text |-> normalized_packages[i]]]]

\* packages: the set of the names the iterable yields
generate_root_index(packages) ==
    LET normalized_packages ==
            sorted_set({normalize_package_name(package) : package \in packages})
    IN  [title |-> SIMPLE_INDEX,
         links |-> [i \in 1..Len(normalized_packages) |->
                       [href |-> normalized_packages[i] \o <<"/">>,
                        text |-> normalized_packages[i]]]]

(***************************************************************************)
(* The wheels directory of the model.                                      *)
(***************************************************************************)
Str_c_c_l == <<<<"c">>, <<"c">>, <<"l">>>>

\* A_b-1-c-c-l.whl
WheelAB1 == Join(<<<<"A", "_", "b">>, <<"1">>>> \o Str_c_c_l) \o WHL
\* a.b-2-1-c-c-l.whl (with a build tag)
WheelAB2 == Join(<<<<"a", ".", "b">>, <<"2">>, <<"1">>>> \o Str_c_c_l) \o WHL
\* x&y-1-c-c-l.whl
WheelXY == Join(<<<<"x", "&", "y">>, <<"1">>>> \o Str_c_c_l) \o WHL
\* bad.whl
WheelBad == <<"b", "a", "d">> \o WHL
\* n-1-c-c-l.txt
NotAWheel == Join(<<<<"n">>, <<"1">>>> \o Str_c_c_l) \o <<".", "t", "x", "t">>
\* y-1-c-c-l.whl, a directory
WheelNamedDir == Join(<<<<"y">>, <<"1">>>> \o Str_c_c_l) \o WHL

\* the directory entries that can be created in wheels_dir
Entries ==
    {[name |-> n, is_file |-> TRUE] :
        n \in {WheelAB1, WheelAB2, WheelXY, WheelBad, NotAWheel}}
    \cup {[name |-> WheelNamedDir, is_file |-> FALSE]}

\* https-like base URLs, without and with a trailing slash
BaseUrls == {<<"h", ":", "/", "/", "x">>, <<"h", ":", "/", "/", "x", "/">>}

NoSummary == [packages |-> <<>>, wheel_files |-> <<>>]

NotCalled == "NotCalled"

NoExit == -1

(***************************************************************************)
(* generate_indexes                                                        *)
(***************************************************************************)
\* tuple(wheel for wheel in sorted(wheels_dir.glob("*.whl")) if wheel.is_file()),
\* as names
glob_wheel_files(dir) ==
    sorted_set({e.name : e \in {d \in dir : EndsWith(d.name, WHL) /\ d.is_file}})

\* one pass of the loop body for a name that parses, under the key package_name
AddWheel(acc, package_name, name) ==
    LET current_wheels == IF package_name \in DOMAIN acc.packages
                          THEN acc.packages[package_name] ELSE <<>>
    IN  [packages |-> [n \in DOMAIN acc.packages \cup {package_name} |->
                          IF n = package_name
                          THEN sorted(current_wheels \o <<name>>)
                          ELSE acc.packages[n]],
         valid_wheels |-> sorted(acc.valid_wheels \o <<name>>),
         stderr |-> acc.stderr]

Warn(acc, name) ==
    [acc EXCEPT !.stderr = Append(@, [level |-> "Warning", filename |-> name])]

\* faulty variant: the loop ends at the first name that does not parse
RECURSIVE group_wheels_break(_, _)
group_wheels_break(wheel_files, acc) ==
    IF wheel_files = <<>> THEN acc
    ELSE \* the parse result is evaluated once
         LET info == CHOOSE i \in {parse_wheel_filename(wheel_files[1])} : TRUE
         IN  IF info.raises = "ValueError"
             THEN Warn(acc, wheel_files[1])
             ELSE group_wheels_break(Tail(wheel_files),
                                     AddWheel(acc, info.name, wheel_files[1]))

\* faulty variant: the group key is the name as matched, not the normalized name
RECURSIVE group_wheels_raw_key(_, _)
group_wheels_raw_key(wheel_files, acc) ==
    IF wheel_files = <<>> THEN acc
    ELSE LET info == CHOOSE i \in {parse_wheel_filename(wheel_files[1])} : TRUE
         IN  IF info.raises = "ValueError"
             THEN group_wheels_raw_key(Tail(wheel_files), Warn(acc, wheel_files[1]))
             ELSE group_wheels_raw_key(Tail(wheel_files),
                                       AddWheel(acc, Match(wheel_files[1]).name,
                                                wheel_files[1]))

\* the loop over wheel_files: acc holds packages, valid_wheels and the
\* warnings printed so far
RECURSIVE group_wheels(_, _)
group_wheels(wheel_files, acc) ==
    IF wheel_files = <<>> THEN acc
    ELSE LET info == CHOOSE i \in {parse_wheel_filename(wheel_files[1])} : TRUE
         IN  IF info.raises = "ValueError"
             THEN group_wheels(Tail(wheel_files), Warn(acc, wheel_files[1]))
             ELSE group_wheels(Tail(wheel_files),
                               AddWheel(acc, info.name, wheel_files[1]))

\* the result of a call that raises FileNotFoundError: nothing is touched
Raise ==
    [raised |-> "FileNotFoundError", summary |-> NoSummary, stderr |-> <<>>,
     output_dir_exists |-> output_dir_exists, package_dirs |-> package_dirs,
     package_pages |-> package_pages, root_page |-> root_page]

EmptyGroups == [packages |-> <<>>, valid_wheels |-> <<>>, stderr |-> <<>>]

\* faulty variant: an index.html that exists is left as it is
write_indexes_keep_existing(grouped, base_url) ==
    [raised |-> NoException,
     summary |-> [packages |-> grouped.packages, wheel_files |-> grouped.valid_wheels],
     stderr |-> grouped.stderr,
     output_dir_exists |-> TRUE,
     package_dirs |-> package_dirs \cup DOMAIN grouped.packages,
     package_pages |->
         [d \in DOMAIN package_pages \cup DOMAIN grouped.packages |->
             IF d \in DOMAIN package_pages
             THEN package_pages[d]
             ELSE generate_package_index(d, grouped.packages[d], base_url)],
     root_page |-> <<generate_root_index(DOMAIN grouped.packages)>>]

\* the second half of generate_indexes: the directories made, the pages
\* written and the value returned, given the result of the loop
write_indexes(grouped, base_url) ==
    [raised |-> NoException,
     summary |-> [packages |-> grouped.packages, wheel_files |-> grouped.valid_wheels],
     stderr |-> grouped.stderr,
     output_dir_exists |-> TRUE,
     package_dirs |-> package_dirs \cup DOMAIN grouped.packages,
     package_pages |->
         [d \in DOMAIN package_pages \cup DOMAIN grouped.packages |->
             IF d \in DOMAIN grouped.packages
             THEN generate_package_index(d, grouped.packages[d], base_url)
             ELSE package_pages[d]],
     root_page |-> <<generate_root_index(DOMAIN grouped.packages)>>]

\* what one call does on the current directories: the exception it raises,
\* the value it returns, what it prints on stderr and the output tree it leaves
generate_indexes(base_url) ==
    IF ~wheels_dir_exists THEN Raise
    ELSE CHOOSE result \in
             {write_indexes(grouped, base_url) :
                 grouped \in {group_wheels(glob_wheel_files(wheels_dir), EmptyGroups)}} :
             TRUE

\* the effect of a call on the file system and on the returned value
Apply(result) ==
    /\ output_dir_exists' = result.output_dir_exists
    /\ package_dirs' = result.package_dirs
    /\ package_pages' = result.package_pages
    /\ root_page' = result.root_page
    /\ summary' = result.summary
    /\ raised' = result.raised

\* generate_indexes called as a library function (as the tests do)
GenerateIndexes(base_url) ==
    \E result \in {generate_indexes(base_url)} :
        /\ Apply(result)
        /\ stderr' = result.stderr
        /\ stdout' = <<>>
        /\ exit_code' = NoExit
        /\ UNCHANGED <<source_vars, called, call_args, call_result>>

(***************************************************************************)
(* main                                                                    *)
(***************************************************************************)
\* faulty variant: the FileNotFoundError is reported but the exit status is 0
main_exit_zero(base_url) ==
    \E result \in {generate_indexes(base_url)} :
        /\ Apply(result)
        /\ stderr' = IF result.raised = "FileNotFoundError"
                     THEN <<[level |-> "Error", filename |-> None]>>
                     ELSE result.stderr
        /\ stdout' = <<>>
        /\ exit_code' = 0
        /\ UNCHANGED <<source_vars, called, call_args, call_result>>

main(base_url) ==
    \E result \in {generate_indexes(base_url)} :
        /\ Apply(result)
        /\ IF result.raised = "FileNotFoundError"
           THEN /\ stderr' = <<[level |-> "Error", filename |-> None]>>
                /\ stdout' = <<>>
                /\ exit_code' = 1
           ELSE IF result.summary.wheel_files = <<>>
           THEN /\ stderr' = result.stderr
                /\ stdout' = <<"Warning: No wheel files found">>
                /\ exit_code' = 0
           ELSE /\ stderr' = result.stderr
                /\ stdout' = <<"Generated index", "Total wheels processed">>
                /\ exit_code' = 0
        /\ UNCHANGED <<source_vars, called, call_args, call_result>>

(***************************************************************************)
(* The build pipeline around the script: it creates and removes the wheels *)
(* directory and the entries in it.                                        *)
(***************************************************************************)
CreateWheelsDir ==
    /\ ~wheels_dir_exists
    /\ wheels_dir_exists' = TRUE
    /\ wheels_dir' = {}
    /\ UNCHANGED <<output_vars, run_vars, called, call_args, call_result>>

RemoveWheelsDir ==
    /\ wheels_dir_exists
    /\ wheels_dir_exists' = FALSE
    /\ wheels_dir' = {}
    /\ UNCHANGED <<output_vars, run_vars, called, call_args, call_result>>

CreateEntry(e) ==
    /\ wheels_dir_exists
    /\ e \notin wheels_dir
    /\ Cardinality(wheels_dir) < MaxEntries
    /\ wheels_dir' = wheels_dir \cup {e}
    /\ UNCHANGED <<wheels_dir_exists, output_vars, run_vars, called, call_args, call_result>>

RemoveEntry(e) ==
    /\ e \in wheels_dir
    /\ wheels_dir' = wheels_dir \ {e}
    /\ UNCHANGED <<wheels_dir_exists, output_vars, run_vars, called, call_args, call_result>>

Init ==
    /\ wheels_dir_exists = FALSE
    /\ wheels_dir = {}
    /\ output_dir_exists = FALSE
    /\ package_dirs = {}
    /\ package_pages = <<>>
    /\ root_page = <<>>
    /\ summary = NoSummary
    /\ raised = NotCalled
    /\ stderr = <<>>
    /\ stdout = <<>>
    /\ exit_code = NoExit
    /\ called = "none"
    /\ call_args = <<>>
    /\ call_result = <<>>

Next ==
    \/ CreateWheelsDir
    \/ RemoveWheelsDir
    \/ \E e \in Entries : CreateEntry(e)
    \/ \E e \in Entries : RemoveEntry(e)
    \/ \E base_url \in BaseUrls : GenerateIndexes(base_url)
    \/ \E base_url \in BaseUrls : main(base_url)

Spec == Init /\ [][Next]_vars

(***************************************************************************)
(* The pure functions applied to drawn arguments: the initial state holds  *)
(* the arguments, an action applies the function and keeps its result.     *)
(***************************************************************************)
Idle ==
    /\ wheels_dir_exists = FALSE
    /\ wheels_dir = {}
    /\ output_dir_exists = FALSE
    /\ package_dirs = {}
    /\ package_pages = <<>>
    /\ root_page = <<>>
    /\ summary = NoSummary
    /\ raised = NotCalled
    /\ stderr = <<>>
    /\ stdout = <<>>
    /\ exit_code = NoExit

\* sequences over S of length at most n
SeqsUpTo(S, n) == UNION {[1..k -> S] : k \in 0..n}

\* segments and endings of the filenames handed to the parser
SegmentChoices == {<<"a">>, <<"B", "_">>, <<"1", ".">>, <<"c">>}

Endings == {WHL, <<>>, <<".", "w", "h">>, <<".", "t", "x", "t">>}

ParserInputs ==
    {Join(segs) \o ending :
        segs \in SeqsUpTo(SegmentChoices, MaxSegments) \ {<<>>}, ending \in Endings}

InitParse ==
    /\ Idle
    /\ called = "none"
    /\ call_args \in ParserInputs
    /\ call_result = <<>>

CallParse ==
    /\ called = "none"
    /\ called' = "parse_wheel_filename"
    /\ call_result' = parse_wheel_filename(call_args)
    /\ UNCHANGED <<source_vars, output_vars, run_vars, call_args>>

SpecParse == InitParse /\ [][CallParse]_vars

\* the names handed to normalize_package_name
NameChars == {"a", "B", "-", "_", "."}

InitNormalize ==
    /\ Idle
    /\ called = "none"
    /\ call_args \in SeqsUpTo(NameChars, MaxNameLen)
    /\ call_result = <<>>

\* normalized = normalize_package_name(name)
CallNormalize ==
    /\ called = "none"
    /\ called' = "once"
    /\ call_result' = <<normalize_package_name(call_args)>>
    /\ UNCHANGED <<source_vars, output_vars, run_vars, call_args>>

\* again = normalize_package_name(normalized)
CallNormalizeAgain ==
    /\ called = "once"
    /\ called' = "twice"
    /\ call_result' = Append(call_result, normalize_package_name(call_result[1]))
    /\ UNCHANGED <<source_vars, output_vars, run_vars, call_args>>

NextNormalize == CallNormalize \/ CallNormalizeAgain

SpecNormalize == InitNormalize /\ [][NextNormalize]_vars

\* the filenames, base URLs and package names handed to the page generators
RenderWheels == {<<"a">>, <<"B">>, <<"x", "&", "y">>, <<"<", "\"">>, <<"'", ">">>}

RenderBaseUrls ==
    {<<>>, <<"/">>, <<"h">>, <<"h", "/">>, <<"h", "/", "/">>, <<"h", "/", "x">>,
     <<"h", "&", "/">>}

RenderPackages ==
    {<<"a">>, <<"A">>, <<"a", "-", "b">>, <<"a", "_", "b">>, <<"x", "&", "y">>,
     <<"b", ".", ".", "c">>}

InitRender ==
    /\ Idle
    /\ called = "none"
    /\ call_result = <<>>
    /\ \/ \E wheels \in SeqsUpTo(RenderWheels, MaxWheels), base_url \in RenderBaseUrls :
              call_args = [function |-> "generate_package_index",
                           package_name |-> <<"a">>, wheels |-> wheels,
                           base_url |-> base_url, packages |-> {}]
       \/ \E packages \in SUBSET RenderPackages :
              /\ Cardinality(packages) <= MaxPackages
              /\ call_args = [function |-> "generate_root_index",
                              package_name |-> <<>>, wheels |-> <<>>,
                              base_url |-> <<>>, packages |-> packages]

CallGeneratePackageIndex ==
    /\ called = "none"
    /\ call_args.function = "generate_package_index"
    /\ called' = "generate_package_index"
    /\ call_result' = generate_package_index(call_args.package_name, call_args.wheels,
                                             call_args.base_url)
    /\ UNCHANGED <<source_vars, output_vars, run_vars, call_args>>

CallGenerateRootIndex ==
    /\ called = "none"
    /\ call_args.function = "generate_root_index"
    /\ called' = "generate_root_index"
    /\ call_result' = generate_root_index(call_args.packages)
    /\ UNCHANGED <<source_vars, output_vars, run_vars, call_args>>

NextRender == CallGeneratePackageIndex \/ CallGenerateRootIndex

SpecRender == InitRender /\ [][NextRender]_vars

(***************************************************************************)
(* Vocabulary of the properties.                                           *)
(***************************************************************************)
\* s is strictly ascending, resp. ascending with repetitions, in str order
IsAscending(s) == \A i \in 1..(Len(s) - 1) : StrLess(s[i], s[i + 1])

IsNonDescending(s) == \A i \in 1..(Len(s) - 1) : ~StrLess(s[i + 1], s[i])

\* the elements of a sequence
Range(s) == {s[i] : i \in 1..Len(s)}

\* s starts with t
StartsWith(s, t) == Len(s) >= Len(t) /\ SubSeq(s, 1, Len(t)) = t

\* what an HTML parser reads back from escaped text: the five character
\* references html.escape produces are decoded, anything else is kept
RECURSIVE Unescape(_)
Unescape(s) ==
    IF s = <<>> THEN <<>>
    ELSE IF StartsWith(s, AMP) THEN <<"&">> \o Unescape(SubSeq(s, 6, Len(s)))
    ELSE IF StartsWith(s, LT) THEN <<"<">> \o Unescape(SubSeq(s, 5, Len(s)))
    ELSE IF StartsWith(s, GT) THEN <<">">> \o Unescape(SubSeq(s, 5, Len(s)))
    ELSE IF StartsWith(s, QUOT) THEN <<"\"">> \o Unescape(SubSeq(s, 7, Len(s)))
    ELSE IF StartsWith(s, APOS) THEN <<"'">> \o Unescape(SubSeq(s, 7, Len(s)))
    ELSE <<s[1]>> \o Unescape(Tail(s))

\* s holds no angle bracket and no quote, and every ampersand of s starts one
\* of the five character references
IsEscaped(s) ==
    \A i \in 1..Len(s) :
        /\ s[i] \notin {"<", ">", "\"", "'"}
        /\ s[i] = "&" =>
               \E ref \in {AMP, LT, GT, QUOT, APOS} :
                   StartsWith(SubSeq(s, i, Len(s)), ref)

\* the filenames a page lists, as a client reads them
PageFiles(page) == {Unescape(page.links[i].text) : i \in 1..Len(page.links)}

\* the names of all entries of the wheels directory
Present == {e.name : e \in wheels_dir}

\* the regular files of the wheels directory whose name ends in .whl
Archives == {e.name : e \in {d \in wheels_dir : d.is_file /\ EndsWith(d.name, WHL)}}

Accepted(filename) == parse_wheel_filename(filename).raises = NoException

\* the dash-separated segments of s
RECURSIVE Split(_, _)
Split(s, current) ==
    IF s = <<>> THEN <<current>>
    ELSE IF s[1] = "-" THEN <<current>> \o Split(Tail(s), <<>>)
    ELSE Split(Tail(s), Append(current, s[1]))

\* the segments of a filename before its .whl extension
Segments(filename) == Split(SubSeq(filename, 1, Len(filename) - 4), <<>>)

\* a step of generate_indexes or main: the only steps that leave the wheels
\* directory as it is
RunStep == UNCHANGED source_vars

(***************************************************************************)
(* C1: in every run over an existing wheels directory, a file whose name   *)
(* the parser rejects is left out of every package group, of wheel_files   *)
(* and of every page, and is warned about on stderr when it is one of the  *)
(* enumerated *.whl files; every enumerated file whose name parses is in   *)
(* the group of its normalized name; and the run raises nothing.           *)
(***************************************************************************)
C1_Post(result, errors, pages) ==
    /\ result.raised = NoException
    /\ \A n \in Present :
           \E info \in {parse_wheel_filename(n)} :
               IF info.raises = NoException
               THEN n \in Archives =>
                        LET key == normalize_package_name(Match(n).name)
                        IN  /\ key \in DOMAIN result.summary.packages
                            /\ n \in Range(result.summary.packages[key])
                            /\ n \in Range(result.summary.wheel_files)
               ELSE /\ n \notin Range(result.summary.wheel_files)
                    /\ \A k \in DOMAIN result.summary.packages :
                           n \notin Range(result.summary.packages[k])
                    /\ \A d \in DOMAIN pages : n \notin PageFiles(pages[d])
                    /\ n \in Archives =>
                           [level |-> "Warning", filename |-> n] \in Range(errors)

C1_InvalidSkipped ==
    [][(RunStep /\ wheels_dir_exists) =>
           C1_Post([raised |-> raised', summary |-> summary'], stderr', package_pages')]_vars

\* a run has grouped an archive while a rejected archive was present and warned about
C1_Witness ==
    /\ raised = NoException
    /\ {WheelBad, WheelXY} \subseteq Archives
    /\ [level |-> "Warning", filename |-> WheelBad] \in Range(stderr)
    /\ WheelXY \in Range(summary.wheel_files)
    /\ WheelBad \notin Range(summary.wheel_files)

(***************************************************************************)
(* C2: every filename of a package group, and every filename listed by the *)
(* page of a package directory, parses again to a name equal to the group  *)
(* key, respectively to the name of the directory.                         *)
(***************************************************************************)
C2_RoundTrip ==
    /\ \A k \in DOMAIN summary.packages :
           \A f \in Range(summary.packages[k]) :
               Accepted(f) /\ parse_wheel_filename(f).name = k
    /\ \A d \in DOMAIN package_pages :
           /\ d \in package_dirs
           /\ \A f \in PageFiles(package_pages[d]) :
                  Accepted(f) /\ parse_wheel_filename(f).name = d

\* a group of two archives whose names differ before normalisation
C2_Witness ==
    /\ raised = NoException
    /\ <<"a", "-", "b">> \in DOMAIN summary.packages
    /\ summary.packages[<<"a", "-", "b">>] = <<WheelAB1, WheelAB2>>
    /\ PageFiles(package_pages[<<"a", "-", "b">>]) = {WheelAB1, WheelAB2}

(***************************************************************************)
(* C3: after a successful run the root page holds one link per package     *)
(* group, in ascending order of name, each with href name + "/"; the names *)
(* linked are exactly the keys of the returned packages; and every such    *)
(* name has its directory and its page, which lists the files of the group.*)
(***************************************************************************)
C3_RootIndex ==
    raised = NoException =>
        /\ Len(root_page) = 1
        /\ LET links == root_page[1].links
               names == [i \in 1..Len(links) |-> links[i].text]
           IN  /\ IsAscending(names)
               /\ Range(names) = DOMAIN summary.packages
               /\ \A i \in 1..Len(links) : links[i].href = names[i] \o <<"/">>
        /\ \A n \in DOMAIN summary.packages :
               /\ n \in package_dirs
               /\ n \in DOMAIN package_pages
               /\ PageFiles(package_pages[n]) = Range(summary.packages[n])

\* a root page of two packages, each with its page
C3_Witness ==
    /\ raised = NoException
    /\ Len(root_page) = 1
    /\ Len(root_page[1].links) = 2
    /\ DOMAIN summary.packages = {<<"a", "-", "b">>, <<"x", "&", "y">>}

(***************************************************************************)
(* C4, as claimed: once a run completes, no index page under output_dir    *)
(* lists an archive that is absent from the wheels directory at that run.  *)
(***************************************************************************)
NoStaleEntry(pages) == \A d \in DOMAIN pages : PageFiles(pages[d]) \subseteq Present

C4_NoStaleEntries ==
    [][(RunStep /\ raised' = NoException) => NoStaleEntry(package_pages')]_vars

(***************************************************************************)
(* C4, amended: once a run completes, the root page links exactly the      *)
(* packages that have an archive in the wheels directory at that run, the  *)
(* page of each of them lists exactly its archives of that run, and a page *)
(* lists an absent archive only when its package has no archive left (its  *)
(* directory is neither rewritten nor removed).                            *)
(***************************************************************************)
\* parsed: the pairs <<archive, parse result>> of the archives whose name parses
C4_Post(parsed, pages, root) ==
    LET packaged == {p[2].name : p \in parsed}
    IN  /\ Len(root) = 1
        /\ {root[1].links[i].text : i \in 1..Len(root[1].links)} = packaged
        /\ \A d \in packaged :
               /\ d \in DOMAIN pages
               /\ PageFiles(pages[d]) = {p[1] : p \in {q \in parsed : q[2].name = d}}
        /\ \A d \in DOMAIN pages :
               ~(PageFiles(pages[d]) \subseteq Present) => d \notin packaged

\* the archives of the wheels directory whose name parses, each with its parse result
ParsedArchives ==
    {p \in {<<a, parse_wheel_filename(a)>> : a \in Archives} : p[2].raises = NoException}

C4_RegeneratedWhereArchivesRemain ==
    [][(RunStep /\ raised' = NoException) =>
           \E parsed \in {ParsedArchives} : C4_Post(parsed, package_pages', root_page')]_vars

\* after a run, one archive of a-b is gone from its page while the page of
\* x&y, whose only archive is gone, still lists it
C4_Witness ==
    /\ raised = NoException
    /\ Archives = {WheelAB2}
    /\ summary.wheel_files = <<WheelAB2>>
    /\ PageFiles(package_pages[<<"a", "-", "b">>]) = {WheelAB2}
    /\ <<"x", "&", "y">> \in DOMAIN package_pages
    /\ PageFiles(package_pages[<<"x", "&", "y">>]) = {WheelXY}

(***************************************************************************)
(* C5: generate_package_index emits one link per filename, in ascending    *)
(* filename order; the href of a link decodes to base_url without its      *)
(* trailing slashes, then "/", then the filename, and its text decodes to  *)
(* the filename; no slash precedes the "/" of the join.                    *)
(***************************************************************************)
Count(seq, x) == Cardinality({i \in 1..Len(seq) : seq[i] = x})

C5_PackageLinks ==
    called = "generate_package_index" =>
        LET wheels == call_args.wheels
            base_url == call_args.base_url
            links == call_result.links
            listed == [i \in 1..Len(links) |-> Unescape(links[i].text)]
        IN  /\ Len(links) = Len(wheels)
            /\ \A w \in Range(wheels) \cup Range(listed) : Count(listed, w) = Count(wheels, w)
            /\ IsNonDescending(listed)
            /\ \E k \in 0..Len(base_url) :
                   /\ k = 0 \/ base_url[k] # "/"
                   /\ \A j \in (k + 1)..Len(base_url) : base_url[j] = "/"
                   /\ \A i \in 1..Len(links) :
                          Unescape(links[i].href) =
                              SubSeq(base_url, 1, k) \o <<"/">> \o listed[i]

\* a base URL with a trailing slash, and filenames given out of order, one of
\* them with characters that are escaped
C5_Witness ==
    /\ called = "generate_package_index"
    /\ call_args.base_url = <<"h", "/">>
    /\ call_args.wheels = <<<<"x", "&", "y">>, <<"a">>>>
    /\ Len(call_result.links) = 2

(***************************************************************************)
(* C6, as claimed: parse_wheel_filename returns a result only for a        *)
(* filename that ends in .whl and has five or six dash-separated segments  *)
(* before the extension; for every other filename it raises ValueError.    *)
(***************************************************************************)
HasWheelShape(filename) ==
    /\ EndsWith(filename, WHL)
    /\ Len(Segments(filename)) \in {5, 6}

C6_RejectsOtherShapes ==
    called = "parse_wheel_filename" =>
        /\ call_result.raises \in {NoException, "ValueError"}
        /\ ~HasWheelShape(call_args) => call_result.raises = "ValueError"

(***************************************************************************)
(* C7: when the wheels directory does not exist, a run raises              *)
(* FileNotFoundError, leaves the output untouched and, run from the        *)
(* command line, exits with a status other than 0; when it exists, the run *)
(* raises nothing, a root page is written and, run from the command line,  *)
(* the exit status is 0.                                                   *)
(***************************************************************************)
\* status is the exit status of a command-line run, NoExit for a library call
C7_Post(error, status, root, unchanged) ==
    IF ~wheels_dir_exists
    THEN /\ error = "FileNotFoundError"
         /\ unchanged
         /\ status # 0
    ELSE /\ error = NoException
         /\ Len(root) = 1
         /\ status \in {NoExit, 0}

C7_ExitStatus ==
    [][RunStep => C7_Post(raised', exit_code', root_page', UNCHANGED output_vars)]_vars

\* the script has failed on a missing wheels directory before any output
C7_Witness ==
    /\ raised = "FileNotFoundError"
    /\ exit_code = 1
    /\ ~output_dir_exists
    /\ root_page = <<>>

(***************************************************************************)
(* C8, as claimed: in the root page and in every package page, every href  *)
(* value and every link text is HTML-escaped.                              *)
(***************************************************************************)
LinksEscaped(page) ==
    \A i \in 1..Len(page.links) :
        IsEscaped(page.links[i].href) /\ IsEscaped(page.links[i].text)

C8_LinksEscaped ==
    /\ \A d \in DOMAIN package_pages : LinksEscaped(package_pages[d])
    /\ \A i \in 1..Len(root_page) : LinksEscaped(root_page[i])

(***************************************************************************)
(* C9: normalize_package_name applied to its own result returns it.        *)
(***************************************************************************)
C9_Idempotent == called = "twice" => call_result[2] = call_result[1]

\* a name with a run of separators and an upper-case letter, normalized twice
C9_Witness ==
    /\ called = "twice"
    /\ call_args = <<"B", "_", ".", "-", "a">>
    /\ call_result[1] = <<"b", "-", "a">>

(***************************************************************************)
(* C10, as claimed: for an accepted filename, python, abi and platform are *)
(* its last three dash-separated segments before .whl; build is present    *)
(* only when an extra segment that starts with a digit sits between the    *)
(* version and those three; and without build there are five segments.     *)
(***************************************************************************)
C10_TagsFromTheEnd ==
    (called = "parse_wheel_filename" /\ call_result.raises = NoException
        /\ EndsWith(call_args, WHL)) =>
        LET segs == Segments(call_args)
            n == Len(segs)
        IN  /\ n >= 5
            /\ call_result.python = segs[n - 2]
            /\ call_result.abi = segs[n - 1]
            /\ call_result.platform = segs[n]
            /\ IF call_result.build = None
               THEN n = 5
               ELSE n >= 6 /\ call_result.build = segs[n - 3]
                           /\ call_result.build[1] \in Digits

====
